---- MODULE Spec2Model ----
(***************************************************************************)
(* A model of lead_formatter.py: the value coercers (followers_to_int,     *)
(* canon_url, detect_platform), glean_location, mine_phones_from_bio,      *)
(* normalize_item, matches_requirements and the load / mine / dedup /      *)
(* filter pipeline of main().                                              *)
(*                                                                         *)
(* Python text is a sequence of one-character strings, so that slicing,    *)
(* stripping, splitting and joining are computed and not assumed.  JSON    *)
(* values are tagged records: [t |-> "none"], [t |-> "str", v |-> chars],  *)
(* [t |-> "num", v |-> integer], [t |-> "dict", v |-> sequence of values]. *)
(***************************************************************************)
EXTENDS Integers, Sequences, FiniteSets, TLC

\* ------------------------------------------------------------------------
\* Text helpers (the str methods the source calls)
\* ------------------------------------------------------------------------

Digits == {"0", "1", "2", "3", "4", "5", "6", "7", "8", "9"}

DigitChars == <<"0", "1", "2", "3", "4", "5", "6", "7", "8", "9">>

DigitVal(c) == (CHOOSE n \in 1..10 : DigitChars[n] = c) - 1

Whitespace == {" "}

UpperChars ==
  << "A", "B", "C", "D", "E", "F", "G", "H", "I", "J", "K", "L", "M",
     "N", "O", "P", "Q", "R", "S", "T", "U", "V", "W", "X", "Y", "Z" >>

LowerChars ==
  << "a", "b", "c", "d", "e", "f", "g", "h", "i", "j", "k", "l", "m",
     "n", "o", "p", "q", "r", "s", "t", "u", "v", "w", "x", "y", "z" >>

\* str.lower() on one ASCII character
LowerChar(c) ==
  IF \E n \in 1..Len(UpperChars) : UpperChars[n] = c
  THEN LowerChars[CHOOSE n \in 1..Len(UpperChars) : UpperChars[n] = c]
  ELSE c

\* a function on 1..n as a sequence value
AsSeq(f) == SubSeq(f, 1, Len(f))

Lower(s) == AsSeq([i \in 1..Len(s) |-> LowerChar(s[i])])

\* str.find for a set of characters: the first index holding one, 0 if none
FindIn(s, C) ==
  IF \E i \in 1..Len(s) : s[i] \in C
  THEN CHOOSE i \in 1..Len(s) : s[i] \in C /\ \A j \in 1..(i - 1) : s[j] \notin C
  ELSE 0

LStripSet(s, C) ==
  IF \A i \in 1..Len(s) : s[i] \in C
  THEN << >>
  ELSE SubSeq(s, CHOOSE i \in 1..Len(s) : s[i] \notin C /\ \A j \in 1..(i - 1) : s[j] \in C, Len(s))

RStripSet(s, C) ==
  IF \A i \in 1..Len(s) : s[i] \in C
  THEN << >>
  ELSE SubSeq(s, 1, CHOOSE i \in 1..Len(s) : s[i] \notin C /\ \A j \in (i + 1)..Len(s) : s[j] \in C)

StripSet(s, C) == RStripSet(LStripSet(s, C), C)

\* str.strip()
Strip(s) == StripSet(s, Whitespace)

\* str.replace(c, "")
Remove(s, c) == SelectSeq(s, LAMBDA ch : ch # c)

RECURSIVE SplitSet(_, _)
\* re.split on a one-character class / str.split(c): the list of pieces
SplitSet(s, C) ==
  LET i == FindIn(s, C)
  IN  IF i = 0 THEN << s >>
      ELSE << SubSeq(s, 1, i - 1) >> \o SplitSet(SubSeq(s, i + 1, Len(s)), C)

RECURSIVE Join(_, _)
\* sep.join(parts)
Join(parts, sep) ==
  IF Len(parts) = 0 THEN << >>
  ELSE IF Len(parts) = 1 THEN parts[1]
  ELSE parts[1] \o sep \o Join(Tail(parts), sep)

StartsWith(s, p) == Len(s) >= Len(p) /\ SubSeq(s, 1, Len(p)) = p

\* Python's "needle in hay" for text
Contains(hay, needle) ==
  \E i \in 0..(Len(hay) - Len(needle)) : SubSeq(hay, i + 1, i + Len(needle)) = needle

RECURSIVE Pow10(_)
Pow10(n) == IF n = 0 THEN 1 ELSE 10 * Pow10(n - 1)

RECURSIVE DigitsToInt(_)
\* the integer written by a run of digits (0 for the empty run)
DigitsToInt(s) ==
  IF Len(s) = 0 THEN 0
  ELSE 10 * DigitsToInt(SubSeq(s, 1, Len(s) - 1)) + DigitVal(s[Len(s)])

RECURSIVE NatToStr(_)
NatToStr(n) ==
  IF n < 10 THEN << DigitChars[n + 1] >>
  ELSE NatToStr(n \div 10) \o << DigitChars[(n % 10) + 1] >>

\* str(x) of an integer
IntToStr(n) == IF n < 0 THEN << "-" >> \o NatToStr(0 - n) ELSE NatToStr(n)

\* JSON values
None == [t |-> "none"]

Str(s) == [t |-> "str", v |-> s]

Num(n) == [t |-> "num", v |-> n]

Dict(vals) == [t |-> "dict", v |-> vals]

Bool(b) == [t |-> "bool", v |-> b]

\* Python truthiness of a JSON value
Truthy(x) ==
  CASE x.t = "none" -> FALSE
    [] x.t = "str" -> Len(x.v) > 0
    [] x.t = "num" -> x.v # 0
    [] x.t = "dict" -> Len(x.v) > 0
    [] x.t = "bool" -> x.v

\* a or b
Or(a, b) == IF Truthy(a) THEN a ELSE b

\* str(x) of a JSON text or integer
PyStr(x) == IF x.t = "num" THEN IntToStr(x.v) ELSE x.v

\* text before / from the first character of C (all of s / nothing when none)
Before(s, C) == IF FindIn(s, C) = 0 THEN s ELSE SubSeq(s, 1, FindIn(s, C) - 1)

From(s, C) == IF FindIn(s, C) = 0 THEN << >> ELSE SubSeq(s, FindIn(s, C), Len(s))

\* the length of the leading run of characters of C
RunLen(s, C) ==
  IF \A i \in 1..Len(s) : s[i] \in C THEN Len(s)
  ELSE (CHOOSE i \in 1..Len(s) : s[i] \notin C /\ \A j \in 1..(i - 1) : s[j] \in C) - 1

\* ------------------------------------------------------------------------
\* followers_to_int
\* ------------------------------------------------------------------------

NumChars == Digits \cup {"."}

NotANumber == [ok |-> FALSE, neg |-> FALSE, digits |-> 0, frac |-> 0]

\* the unsigned part of a float literal: digits with at most one dot
FloatBody(neg, body) ==
  IF /\ \A i \in 1..Len(body) : body[i] \in NumChars
     /\ Len(SelectSeq(body, LAMBDA c : c = ".")) <= 1
     /\ Len(Remove(body, ".")) >= 1
  THEN [ok |-> TRUE, neg |-> neg, digits |-> DigitsToInt(Remove(body, ".")),
        frac |-> IF FindIn(body, {"."}) = 0 THEN 0 ELSE Len(body) - FindIn(body, {"."})]
  ELSE NotANumber

FloatSigned(t) ==
  IF Len(t) > 0 /\ t[1] \in {"-", "+"} THEN FloatBody(t[1] = "-", Tail(t))
  ELSE FloatBody(FALSE, t)

\* float(text): [ok, neg, digits, frac]; the value is digits / 10^frac, negated
\* when neg (ok = FALSE: ValueError).  float() strips surrounding whitespace
\* and accepts a sign.
FloatParse(s) == FloatSigned(Strip(s))

\* int(f * mult): truncation toward zero
TruncMul(f, mult) ==
  IF f.neg THEN 0 - ((f.digits * mult) \div Pow10(f.frac))
  ELSE (f.digits * mult) \div Pow10(f.frac)

Returned(n) == [raised |-> FALSE, val |-> n]

Raised == [raised |-> TRUE, val |-> 0]

Suffixes == {"k", "m", "b"}

Multiplier(suf) ==
  CASE suf = "k" -> 1000
    [] suf = "m" -> 1000000
    [] suf = "b" -> 1000000000
    [] OTHER -> 1

NoMatch == [ok |-> FALSE, num |-> << >>, suf |-> ""]

MatchParts(num, rest) ==
  IF Len(num) >= 1 /\ rest = << >> THEN [ok |-> TRUE, num |-> num, suf |-> ""]
  ELSE IF Len(num) >= 1 /\ Len(rest) = 1 /\ rest[1] \in Suffixes
       THEN [ok |-> TRUE, num |-> num, suf |-> rest[1]]
       ELSE NoMatch

\* re.match(r"^([\d\.]+)\s*([kmb])?$", s): [ok, num, suf]
FollowersMatch(s) ==
  MatchParts(SubSeq(s, 1, RunLen(s, NumChars)),
             LStripSet(SubSeq(s, RunLen(s, NumChars) + 1, Len(s)), Whitespace))

\* lines 37-40: int(float(s)), 0 on any exception
PlainNumber(f) == IF f.ok THEN Returned(TruncMul(f, 1)) ELSE Returned(0)

\* lines 41-44: float(m.group(1)) is outside any try
Shorthand(num, suf) == IF num.ok THEN Returned(TruncMul(num, Multiplier(suf))) ELSE Raised

FollowersOfMatch(s, m) ==
  IF ~m.ok THEN PlainNumber(FloatParse(s)) ELSE Shorthand(FloatParse(m.num), m.suf)

\* followers_to_int(x) for None, text and integers: [raised, val]
followers_to_int(x) ==
  IF x.t = "none" \/ (x.t = "str" /\ x.v = << >>) THEN Returned(0)
  ELSE FollowersOfMatch(Remove(Lower(Strip(PyStr(x))), ","),
                        FollowersMatch(Remove(Lower(Strip(PyStr(x))), ",")))

\* ------------------------------------------------------------------------
\* urllib.parse.urlparse, canon_url, detect_platform
\* ------------------------------------------------------------------------

Letters ==
  {UpperChars[n] : n \in 1..Len(UpperChars)} \cup {LowerChars[n] : n \in 1..Len(LowerChars)}

SchemeChars == Letters \cup Digits \cup {"+", "-", "."}

ParseError == [ok |-> FALSE, scheme |-> << >>, netloc |-> << >>, path |-> << >>]

\* a netloc with an unmatched bracket is an invalid IPv6 URL; the path ends at
\* the first ? or # (a bracketed host is taken as a valid address)
UrlParts(scheme, netloc, rest) ==
  IF (\E k \in 1..Len(netloc) : netloc[k] = "[") # (\E k \in 1..Len(netloc) : netloc[k] = "]")
  THEN ParseError
  ELSE [ok |-> TRUE, scheme |-> scheme, netloc |-> netloc,
        path |-> Before(rest, {"?", "#"})]

\* "//" opens the netloc, which runs to the first of / ? #
UrlAfterScheme(scheme, url) ==
  IF StartsWith(url, << "/", "/" >>)
  THEN UrlParts(scheme, Before(SubSeq(url, 3, Len(url)), {"/", "?", "#"}),
                From(SubSeq(url, 3, Len(url)), {"/", "?", "#"}))
  ELSE UrlParts(scheme, << >>, url)

\* url[:i] is a scheme: i > 0, a letter first, scheme characters only
HasScheme(url) ==
  /\ FindIn(url, {":"}) > 1
  /\ url[1] \in Letters
  /\ \A j \in 1..(FindIn(url, {":"}) - 1) : url[j] \in SchemeChars

UrlAfterStrip(url) ==
  IF HasScheme(url)
  THEN UrlAfterScheme(Lower(SubSeq(url, 1, FindIn(url, {":"}) - 1)),
                      SubSeq(url, FindIn(url, {":"}) + 1, Len(url)))
  ELSE UrlAfterScheme(<< >>, url)

\* urlparse(u) as the source reads it: [ok, scheme, netloc, path]; ok = FALSE
\* is ValueError.  Leading blanks are dropped first.
urlparse(u) == UrlAfterStrip(LStripSet(u, Whitespace))

Https == << "h", "t", "t", "p", "s", ":", "/", "/" >>

Slash == << "/" >>

\* lines 56-57: the first segment of the path is the host
SchemelessUrl(parts) ==
  Https \o Lower(parts[1]) \o Slash \o RStripSet(Join(Tail(parts), Slash), {"/"})

\* canon_url with the trailing slash of the path kept
CanonicalKeepSlash(u, pu) ==
  IF ~pu.ok THEN Strip(u)
  ELSE IF pu.netloc = << >> /\ pu.path # << >>
       THEN Https \o Lower(SplitSet(pu.path, {"/"})[1]) \o Slash
              \o Join(Tail(SplitSet(pu.path, {"/"})), Slash)
  ELSE Https \o Lower(pu.netloc) \o pu.path

Canonical(u, pu) ==
  IF ~pu.ok THEN Strip(u)
  ELSE IF pu.netloc = << >> /\ pu.path # << >> THEN SchemelessUrl(SplitSet(pu.path, {"/"}))
  ELSE Https \o Lower(pu.netloc) \o RStripSet(pu.path, {"/"})

canon_url(u) == IF u = << >> THEN << >> ELSE Canonical(u, urlparse(u))

DotCom == << ".", "c", "o", "m" >>

Www == << "w", "w", "w", "." >>

Instagram == << "i", "n", "s", "t", "a", "g", "r", "a", "m" >>

Twitter == << "t", "w", "i", "t", "t", "e", "r" >>

Facebook == << "f", "a", "c", "e", "b", "o", "o", "k" >>

Linkedin == << "l", "i", "n", "k", "e", "d", "i", "n" >>

Youtube == << "y", "o", "u", "t", "u", "b", "e" >>

\* the table, in the dict's order
PLATFORM_HOSTS ==
  << [platform |-> Instagram, hosts |-> {Instagram \o DotCom}],
     [platform |-> Twitter, hosts |-> {Twitter \o DotCom, << "x" >> \o DotCom}],
     [platform |-> Facebook,
      hosts |-> {Facebook \o DotCom, << "f", "b" >> \o DotCom, << "m", "." >> \o Facebook \o DotCom}],
     [platform |-> Linkedin, hosts |-> {Linkedin \o DotCom, Www \o Linkedin \o DotCom}],
     [platform |-> Youtube,
      hosts |-> {Youtube \o DotCom, Www \o Youtube \o DotCom,
                 << "y", "o", "u", "t", "u", ".", "b", "e" >>}] >>

HostHits(host) == {n \in 1..Len(PLATFORM_HOSTS) : host \in PLATFORM_HOSTS[n].hosts}

PlatformOf(hits, fallback_platform) ==
  IF hits # {} THEN PLATFORM_HOSTS[CHOOSE n \in hits : \A k \in hits : n <= k].platform
  ELSE Lower(fallback_platform)

DetectFrom(pu, fallback_platform) ==
  IF ~pu.ok THEN [raised |-> TRUE, val |-> << >>]
  ELSE [raised |-> FALSE, val |-> PlatformOf(HostHits(Lower(pu.netloc)), fallback_platform)]

\* detect_platform: [raised, val]; urlparse's ValueError is not caught here
detect_platform(url, fallback_platform) == DetectFrom(urlparse(url), fallback_platform)

\* ------------------------------------------------------------------------
\* Raw records, glean_location, pull_email_and_phone, mine_phones_from_bio
\* ------------------------------------------------------------------------

LocationKeys ==
  << "location", "location_name", "city", "region", "state", "country", "hometown",
     "place", "address", "geo" >>

PhoneFields ==
  << "phone", "phone_number", "phones", "contact_phone", "mobile", "whatsapp",
     "business_phone" >>

ItemKeys ==
  {"platform", "username", "handle", "display_name", "name", "url", "profile_url",
   "bio", "biography", "description", "followers", "followers_count", "follower_count",
   "is_verified", "verified", "is_business_account", "business", "website",
   "external_url"}
    \cup {LocationKeys[n] : n \in 1..Len(LocationKeys)}
    \cup {PhoneFields[n] : n \in 1..Len(PhoneFields)}

\* a record without any key: item.get(k) is None for every k
EmptyItem == [k \in ItemKeys |-> None]

CommaSpace == << ",", " " >>

RECURSIVE DictParts(_)
\* [str(v).strip() for v in val.values() if v]
DictParts(vals) ==
  IF Len(vals) = 0 THEN << >>
  ELSE (IF Truthy(vals[1]) THEN << Strip(PyStr(vals[1])) >> ELSE << >>)
         \o DictParts(Tail(vals))

RECURSIVE GleanFrom(_, _)
\* the loop of glean_location from the n-th key on
GleanFrom(item, n) ==
  IF n > Len(LocationKeys) THEN << >>
  ELSE IF item[LocationKeys[n]].t = "str" /\ Strip(item[LocationKeys[n]].v) # << >>
       THEN Strip(item[LocationKeys[n]].v)
       ELSE IF /\ item[LocationKeys[n]].t = "dict"
               /\ Len(item[LocationKeys[n]].v) > 0
               /\ DictParts(item[LocationKeys[n]].v) # << >>
            THEN Join(DictParts(item[LocationKeys[n]].v), CommaSpace)
            ELSE GleanFrom(item, n + 1)

\* glean_location(item): always text
glean_location(item) == GleanFrom(item, 1)

RECURSIVE CollapseWs(_)
\* re.sub(r"\s+", " ", s)
CollapseWs(s) ==
  IF Len(s) = 0 THEN << >>
  ELSE IF s[1] \in Whitespace
       THEN << " " >> \o CollapseWs(LStripSet(s, Whitespace))
       ELSE << s[1] >> \o CollapseWs(Tail(s))

AddUnique(init, last) ==
  IF \E n \in 1..Len(init) : init[n] = last THEN init ELSE Append(init, last)

RECURSIVE Unique(_)
\* _unique(seq): first occurrences, in order
Unique(seq) ==
  IF Len(seq) = 0 THEN << >>
  ELSE AddUnique(Unique(SubSeq(seq, 1, Len(seq) - 1)), seq[Len(seq)])

NonBlank(parts) == SelectSeq(parts, LAMBDA q : Strip(q) # << >>)

StripAll(parts) == AsSeq([n \in 1..Len(parts) |-> Strip(parts[n])])

PartsOrWhole(parts, v) ==
  IF Len(parts) > 0 THEN parts
  ELSE IF Strip(v) # << >> THEN << Strip(v) >> ELSE << >>

\* _coerce_list(v) for None, text and numbers
coerce_list(v) ==
  CASE v.t = "none" -> << >>
    [] v.t = "str" -> PartsOrWhole(StripAll(NonBlank(SplitSet(v.v, {";", ","}))), v.v)
    [] OTHER -> << Strip(PyStr(v)) >>

RECURSIVE RawPhones(_, _)
\* lines 157-161 from the n-th phone field on
RawPhones(item, n) ==
  IF n > Len(PhoneFields) THEN << >>
  ELSE (IF Truthy(item[PhoneFields[n]]) THEN coerce_list(item[PhoneFields[n]]) ELSE << >>)
         \o RawPhones(item, n + 1)

CleanPhones(raw) == Unique(AsSeq([n \in 1..Len(raw) |-> Strip(CollapseWs(raw[n]))]))

FirstOrEmpty(list) == IF Len(list) > 0 THEN list[1] ELSE << >>

\* the phone of pull_email_and_phone
pull_phone(item) == FirstOrEmpty(CleanPhones(NonBlank(RawPhones(item, 1))))

SepsA == Whitespace \cup {"-", "(", ")"}

SepsB == SepsA \cup {"."}

At(s, i) == IF i >= 1 /\ i <= Len(s) THEN s[i] ELSE ""

\* the index after the run of characters of C that starts at i
SkipSet(s, i, C) ==
  IF \A j \in i..Len(s) : s[j] \in C THEN Len(s) + 1
  ELSE CHOOSE j \in i..Len(s) : s[j] \notin C /\ \A k \in i..(j - 1) : s[k] \in C

\* [6-9]\d{9} at j: the index after the match, 0 when it fails
TenDigitsAt(s, j) ==
  IF /\ At(s, j) \in {"6", "7", "8", "9"}
     /\ \A k \in (j + 1)..(j + 9) : At(s, k) \in Digits
  THEN j + 10
  ELSE 0

\* 0?[6-9]\d{9} at i
MobileAt(s, i) == IF At(s, i) = "0" THEN TenDigitsAt(s, i + 1) ELSE TenDigitsAt(s, i)

\* 91[\s\-\(\)]*0?[6-9]\d{9} at p
PrefixedAt(s, p) ==
  IF At(s, p) = "9" /\ At(s, p + 1) = "1" THEN MobileAt(s, SkipSet(s, p + 2, SepsA)) ELSE 0

\* (?:\+|00)? at i: the index after it
IntroEnd(s, i) ==
  IF At(s, i) = "+" THEN i + 1
  ELSE IF At(s, i) = "0" /\ At(s, i + 1) = "0" THEN i + 2
  ELSE i

\* (?:(?:\+|00)?91[\s\-\(\)]*)?0?[6-9]\d{9} at i: the prefixed form is tried
\* first, then the bare mobile
MatchIndia(s, i) ==
  IF PrefixedAt(s, IntroEnd(s, i)) # 0 THEN PrefixedAt(s, IntroEnd(s, i)) ELSE MobileAt(s, i)

RECURSIVE MoreDigits(_, _, _)
\* (?:[\s\-\.\(\)]*\d)* from i, greedy: [end, count]
MoreDigits(s, i, n) ==
  IF At(s, SkipSet(s, i, SepsB)) \in Digits THEN MoreDigits(s, SkipSet(s, i, SepsB) + 1, n + 1)
  ELSE [end |-> i, count |-> n]

MinMoreDigits == 7

EnoughDigits(r) == IF r.count >= MinMoreDigits THEN r.end ELSE 0

DigitsFrom(s, j) == IF At(s, j) \in Digits THEN EnoughDigits(MoreDigits(s, j + 1, 0)) ELSE 0

\* \+?\d(?:[\s\-\.\(\)]*\d){7,} at i
MatchGeneric(s, i) == IF At(s, i) = "+" THEN DigitsFrom(s, i + 1) ELSE DigitsFrom(s, i)

\* the two patterns of mine_phones_from_bio, in the order of the list
MatchAt(pat, s, i) == IF pat = 1 THEN MatchIndia(s, i) ELSE MatchGeneric(s, i)

FirstMatch(pat, s, pos) ==
  CHOOSE i \in pos..Len(s) :
    MatchAt(pat, s, i) # 0 /\ \A k \in pos..(i - 1) : MatchAt(pat, s, k) = 0

RECURSIVE FindIter(_, _, _)
RECURSIVE EmitFrom(_, _, _)
RECURSIVE EmitTo(_, _, _, _)
\* re.finditer(pat, s) from pos: the matched texts, leftmost first, not overlapping
FindIter(pat, s, pos) ==
  IF \A i \in pos..Len(s) : MatchAt(pat, s, i) = 0 THEN << >>
  ELSE EmitFrom(pat, s, FirstMatch(pat, s, pos))

EmitFrom(pat, s, i) == EmitTo(pat, s, i, MatchAt(pat, s, i))

EmitTo(pat, s, i, e) == << SubSeq(s, i, e - 1) >> \o FindIter(pat, s, e)

\* lines 185-186
CleanHit(m) == StripSet(Strip(CollapseWs(m)), {" ", "-", "(", ")", "."})

CleanHits(found) == Unique(AsSeq([n \in 1..Len(found) |-> CleanHit(found[n])]))

mine_phones_from_bio(bio) ==
  IF bio = << >> THEN << >>
  ELSE CleanHits(FindIter(1, bio, 1) \o FindIter(2, bio, 1))

\* ------------------------------------------------------------------------
\* normalize_item, matches_requirements
\* ------------------------------------------------------------------------

Empty == Str(<< >>)

\* a value on which a str method is called: anything truthy must be text
IsText(x) == ~Truthy(x) \/ x.t = "str"

TextOf(x) == IF Truthy(x) THEN x.v ELSE << >>

\* the alias chains of lines 195-205
PlatformField(item) == Or(item["platform"], Empty)

HandleField(item) == Or(item["username"], Or(item["handle"], Empty))

NameField(item) == Or(item["display_name"], Or(item["name"], Empty))

UrlField(item) == Or(item["url"], Or(item["profile_url"], Empty))

BioField(item) == Or(item["bio"], Or(item["biography"], Or(item["description"], Empty)))

FollowersField(item) ==
  Or(item["followers"], Or(item["followers_count"], Or(item["follower_count"], Empty)))

VerifiedField(item) == Or(item["is_verified"], Or(item["verified"], Bool(FALSE)))

BusinessField(item) == Or(item["is_business_account"], Or(item["business"], Bool(FALSE)))

WebsiteField(item) == Or(item["website"], Or(item["external_url"], Empty))

\* line 207: item.get("location") or glean_location(item)
LocationField(item) ==
  IF Truthy(item["location"]) THEN item["location"] ELSE Str(glean_location(item))

NoLead ==
  [social_media |-> << >>, platform |-> << >>, handle |-> << >>, display_name |-> << >>,
   canonical_url |-> << >>, followers_int |-> 0, bio |-> << >>, verified_bool |-> FALSE,
   business_bool |-> FALSE, location |-> Empty, website |-> Empty, phone |-> << >>,
   source_file |-> << >>]

\* lines 213-230 (email, external_links and the linkedin_* slots are left out:
\* no modelled step reads or writes them)
MakeLead(item, source_file, platform_raw, canonical_url, social, followers) ==
  IF social.raised \/ followers.raised THEN [raised |-> TRUE, lead |-> NoLead]
  ELSE [raised |-> FALSE,
        lead |->
          [social_media |-> social.val,
           platform |-> IF platform_raw # << >> THEN platform_raw ELSE social.val,
           handle |-> Strip(TextOf(HandleField(item))),
           display_name |-> Strip(TextOf(NameField(item))),
           canonical_url |-> canonical_url,
           followers_int |-> followers.val,
           bio |-> Strip(TextOf(BioField(item))),
           verified_bool |-> Truthy(VerifiedField(item)),
           business_bool |-> Truthy(BusinessField(item)),
           location |-> LocationField(item),
           website |-> WebsiteField(item),
           phone |-> pull_phone(item),
           source_file |-> source_file]]

NormalizeText(item, source_file, platform_raw, canonical_url) ==
  MakeLead(item, source_file, platform_raw, canonical_url,
           detect_platform(canonical_url, platform_raw),
           followers_to_int(FollowersField(item)))

\* normalize_item(item, source_file): [raised, lead].  raised stands for the
\* exception that leaves the function: AttributeError / TypeError of a str
\* method on a value that is not text, ValueError of urlparse in
\* detect_platform, ValueError of float() in followers_to_int.
normalize_item(item, source_file) ==
  IF ~(/\ IsText(PlatformField(item))
       /\ IsText(UrlField(item))
       /\ IsText(BioField(item))
       /\ IsText(HandleField(item))
       /\ IsText(NameField(item)))
  THEN [raised |-> TRUE, lead |-> NoLead]
  ELSE NormalizeText(item, source_file, Lower(TextOf(PlatformField(item))),
                     canon_url(TextOf(UrlField(item))))

Space == << " " >>

\* int(min_followers.get(lead["social_media"], 0))
FloorOf(min_followers, social_media) ==
  IF social_media \in DOMAIN min_followers THEN min_followers[social_media] ELSE 0

\* " ".join([handle, display_name, bio]).lower()
Hay(lead) == Lower(Join(<< lead.handle, lead.display_name, lead.bio >>, Space))

\* lines 237-255
OtherCriteria(lead, cfg) ==
  IF /\ Len(cfg.include_platforms) > 0
     /\ \A n \in 1..Len(cfg.include_platforms) : cfg.include_platforms[n] # lead.social_media
  THEN Returned(FALSE)
  ELSE IF lead.followers_int < FloorOf(cfg.min_followers, lead.social_media) THEN Returned(FALSE)
  ELSE IF cfg.verified_only /\ ~lead.verified_bool THEN Returned(FALSE)
  ELSE IF /\ Len(cfg.keywords_any) > 0
          /\ \A n \in 1..Len(cfg.keywords_any) :
                 ~Contains(Hay(lead), Lower(cfg.keywords_any[n]))
       THEN Returned(FALSE)
  ELSE Returned(TRUE)

\* line 234, reached with an empty handle: urlparse may raise
ProfilePath(lead, cfg, pu) ==
  IF ~pu.ok THEN [raised |-> TRUE, val |-> FALSE]
  ELSE IF StripSet(pu.path, {"/"}) = << >> THEN Returned(FALSE)
  ELSE OtherCriteria(lead, cfg)

\* cfg: [profiles_only, include_platforms (a list of texts), min_followers (a
\* function from platform texts to integers), verified_only, keywords_any (a
\* list of texts)].  [raised, val]
matches_requirements(lead, cfg) ==
  IF cfg.profiles_only /\ lead.handle = << >>
  THEN ProfilePath(lead, cfg, urlparse(lead.canonical_url))
  ELSE OtherCriteria(lead, cfg)

\* ------------------------------------------------------------------------
\* main(): load and normalize, mine, deduplicate, filter, export
\* ------------------------------------------------------------------------

VARIABLES
  pc,        \* the step main() is at: "load", "mine", "dedup", "filter", "export",
             \* "done", "crashed"; in the function-level specifications, the
             \* function under study and whether it has been applied
  cfg,       \* the filter configuration built from the arguments
  mineFlag,  \* args.mine_contacts_from_bio
  nFiles,    \* the number of *.json files of the input folder
  fileIdx,   \* how many of them the loop over files has processed
  leads,     \* the list leads
  skipped,   \* names of the files whose handler printed "Skipping"
  uniq,      \* the list uniq
  seen,      \* the set seen
  filtered,  \* the list filtered
  jsonl,     \* the rows written to the JSONL output
  arg,       \* the input of the function under study (function-level specifications)
  res        \* its results, in the order computed

vars == << pc, cfg, mineFlag, nFiles, fileIdx, leads, skipped, uniq, seen, filtered, jsonl,
           arg, res >>

MaxFiles == 2

MaxLeads == 2

\* basenames of the sorted glob: a.json, b.json, ...
FileLetters == << "a", "b", "c", "d" >>

DotJson == << ".", "j", "s", "o", "n" >>

FileName(n) == << FileLetters[n] >> \o DotJson

\* the records the input files are made of: two spellings of one profile URL,
\* two spellings of one handle, a record with neither, and a record whose
\* follower text makes normalize_item raise
RawPalette ==
  << ("url" :> Str(<< "h", "t", "t", "p", "s", ":", "/", "/", "x", ".", "c", "o", "m", "/", "a", "/" >>)) @@ ("bio" :> Str(<< "n", "o", " ", "p", "h", "o", "n", "e" >>)) @@ EmptyItem,
     ("profile_url" :> Str(<< "x", ".", "c", "o", "m", "/", "a" >>)) @@ ("username" :> Str(<< "B", "o", "b" >>))
       @@ ("phone" :> Str(<< "1", "2", " ", " ", "3", "4" >>)) @@ ("bio" :> Str(<< "c", "a", "l", "l", " ", "9", "8", "7", "6", "5", "4", "3", "2", "1", "0" >>)) @@ EmptyItem,
     ("username" :> Str(<< "B", "o", "b" >>)) @@ ("platform" :> Str(<< "T", "w", "i", "T", "T", "e", "r" >>))
       @@ ("followers" :> Str(<< "1", ".", "5", "K" >>)) @@ ("bio" :> Str(<< "+", "1", " ", "(", "2", "3", "4", ")", " ", "5", "6", "7", "-", "8", "9", " ", "o", "r", " ", "9", "8", "7", "6", "5", "4", "3", "2", "1", "0" >>)) @@ EmptyItem,
     ("handle" :> Str(<< " ", "b", "o", "b" >>)) @@ ("platform" :> Str(Twitter)) @@ ("followers" :> Str(<< "-", "5" >>))
       @@ ("is_verified" :> Bool(TRUE)) @@ EmptyItem,
     ("name" :> Str(<< "X" >>)) @@ ("bio" :> Str(<< "1", "2", "3", "4", "5", "6", "7", "8" >>)) @@ EmptyItem,
     ("username" :> Str(<< "b", "a", "d" >>)) @@ ("followers" :> Str(<< "1", ".", "2", ".", "3" >>)) @@ EmptyItem >>

\* normalize_item of each record of the palette, under each file name
Normalized ==
  [n \in 1..Len(RawPalette) |->
     [f \in 1..Len(FileLetters) |-> normalize_item(RawPalette[n], FileName(f))]]

RECURSIVE Lists(_, _)
\* the lists of at most n elements of S
Lists(S, n) ==
  IF n = 0 THEN {<< >>}
  ELSE Lists(S, n - 1) \cup {Append(l, k) : l \in {s \in Lists(S, n - 1) : Len(s) = n - 1}, k \in S}

Appended(lead, more) == [appended |-> << lead >> \o more.appended, failed |-> more.failed]

RECURSIVE NormalizeAll(_, _)
\* the for loop of lines 305-306 over the items (palette indices) of file f:
\* the leads appended before the first exception, and whether one was raised
NormalizeAll(items, f) ==
  IF Len(items) = 0 THEN [appended |-> << >>, failed |-> FALSE]
  ELSE IF Normalized[items[1]][f].raised THEN [appended |-> << >>, failed |-> TRUE]
  ELSE Appended(Normalized[items[1]][f].lead, NormalizeAll(Tail(items), f))

\* lines 303-308 for file f: load_json_any either raises (loads = FALSE: the
\* file is unreadable or not JSON) or returns the file's items
TryFile(loads, items, f) ==
  IF loads THEN NormalizeAll(items, f) ELSE [appended |-> << >>, failed |-> TRUE]

Loaded(f, r) ==
  /\ fileIdx' = f
  /\ leads' = leads \o r.appended
  /\ skipped' = IF r.failed THEN skipped \cup {FileName(f)} ELSE skipped
  /\ pc' = IF f = nFiles THEN "mine" ELSE "load"

\* one iteration of the loop over files, its try / except included
LoadFile ==
  /\ pc = "load"
  /\ fileIdx < nFiles
  /\ \E loads \in BOOLEAN :
       \E items \in IF loads THEN Lists(1..Len(RawPalette), MaxLeads - Len(leads)) ELSE {<< >>} :
         Loaded(fileIdx + 1, TryFile(loads, items, fileIdx + 1))
  /\ UNCHANGED << cfg, mineFlag, nFiles, uniq, seen, filtered, jsonl, arg, res >>

\* lines 315-316
FillPhone(L, nums) == IF Len(nums) > 0 THEN [L EXCEPT !.phone = nums[1]] ELSE L

\* the mining loop without the test of line 313: the phone is overwritten
MineLeadAlways(L) == FillPhone(L, mine_phones_from_bio(L.bio))

\* the body of the mining loop for one lead, lines 313-316
MineLead(L) == IF L.phone = << >> THEN FillPhone(L, mine_phones_from_bio(L.bio)) ELSE L

\* lines 311-316
MineContacts ==
  /\ pc = "mine"
  /\ leads' = IF mineFlag THEN AsSeq([n \in 1..Len(leads) |-> MineLead(leads[n])]) ELSE leads
  /\ pc' = "dedup"
  /\ UNCHANGED << cfg, mineFlag, nFiles, fileIdx, skipped, uniq, seen, filtered, jsonl,
                  arg, res >>

RowDash == << "r", "o", "w", "-" >>

\* the key with the handle compared as written, not lower-cased
dedup_key_cased(idx, L) ==
  IF L.canonical_url # << >> THEN << L.social_media, L.canonical_url >>
  ELSE IF L.handle # << >> THEN << L.social_media, << "@" >> \o L.handle >>
  ELSE << L.social_media, RowDash \o IntToStr(idx) \o << "-" >> \o L.source_file >>

\* the key with the row number left out of the fallback
dedup_key_norow(idx, L) ==
  IF L.canonical_url # << >> THEN << L.social_media, L.canonical_url >>
  ELSE IF L.handle # << >> THEN << L.social_media, << "@" >> \o Lower(L.handle) >>
  ELSE << L.social_media, RowDash \o << "-" >> \o L.source_file >>

\* the key of lines 321-326; idx counts from 0
dedup_key(idx, L) ==
  IF L.canonical_url # << >> THEN << L.social_media, L.canonical_url >>
  ELSE IF L.handle # << >> THEN << L.social_media, << "@" >> \o Lower(L.handle) >>
  ELSE << L.social_media, RowDash \o IntToStr(idx) \o << "-" >> \o L.source_file >>

RECURSIVE DedupLoop(_, _, _, _)
\* the loop of lines 320-330 from position n (1-based) on
DedupLoop(ls, n, seenSoFar, uniqSoFar) ==
  IF n > Len(ls) THEN [seen |-> seenSoFar, uniq |-> uniqSoFar]
  ELSE IF dedup_key(n - 1, ls[n]) \in seenSoFar THEN DedupLoop(ls, n + 1, seenSoFar, uniqSoFar)
  ELSE DedupLoop(ls, n + 1, seenSoFar \cup {dedup_key(n - 1, ls[n])}, Append(uniqSoFar, ls[n]))

Deduped(d) == seen' = d.seen /\ uniq' = d.uniq

Deduplicate ==
  /\ pc = "dedup"
  /\ Deduped(DedupLoop(leads, 1, {}, << >>))
  /\ pc' = "filter"
  /\ UNCHANGED << cfg, mineFlag, nFiles, fileIdx, leads, skipped, filtered, jsonl, arg, res >>

\* line 333; an exception of matches_requirements leaves main()
Filter ==
  /\ pc = "filter"
  /\ IF \E n \in 1..Len(uniq) : matches_requirements(uniq[n], cfg).raised
     THEN pc' = "crashed" /\ filtered' = filtered
     ELSE /\ filtered' = SelectSeq(uniq, LAMBDA L : matches_requirements(L, cfg).val)
          /\ pc' = "export"
  /\ UNCHANGED << cfg, mineFlag, nFiles, fileIdx, leads, skipped, uniq, seen, jsonl, arg, res >>

\* lines 341-352: one row per filtered lead, in order
Export ==
  /\ pc = "export"
  /\ jsonl' = filtered
  /\ pc' = "done"
  /\ UNCHANGED << cfg, mineFlag, nFiles, fileIdx, leads, skipped, uniq, seen, filtered,
                  arg, res >>

NoFilter ==
  [profiles_only |-> FALSE, include_platforms |-> << >>, min_followers |-> << >>,
   verified_only |-> FALSE, keywords_any |-> << >>]

\* --profiles-only --include-platforms twitter --min-followers twitter:1500 --keywords-any BOB
StrictFilter ==
  [profiles_only |-> TRUE, include_platforms |-> << Twitter >>,
   min_followers |-> (Twitter :> 1500), verified_only |-> FALSE,
   keywords_any |-> << << "B", "O", "B" >> >>]

\* what main() has before the first file is read
Fresh ==
  /\ fileIdx = 0
  /\ leads = << >>
  /\ skipped = {}
  /\ uniq = << >>
  /\ seen = {}
  /\ filtered = << >>
  /\ jsonl = << >>
  /\ res = << >>

Init ==
  /\ cfg \in {NoFilter, StrictFilter}
  /\ mineFlag \in BOOLEAN
  /\ nFiles \in 0..MaxFiles
  /\ pc = IF nFiles = 0 THEN "mine" ELSE "load"
  /\ arg = None
  /\ Fresh

Next == LoadFile \/ MineContacts \/ Deduplicate \/ Filter \/ Export

Spec == Init /\ [][Next]_vars

\* ------------------------------------------------------------------------
\* Function-level specifications: one function applied to bounded inputs
\* ------------------------------------------------------------------------

\* main() is not running: only pc, arg and res change
Idle == UNCHANGED << cfg, mineFlag, nFiles, fileIdx, leads, skipped, uniq, seen, filtered, jsonl >>

NotRunning == cfg = NoFilter /\ mineFlag = FALSE /\ nFiles = 0 /\ Fresh

MaxUrlLen == 4

UrlAlphabet == {"a", "B", ":", "/", "[", "?", " "}

InitCanon ==
  /\ pc = "canon"
  /\ arg \in Lists(UrlAlphabet, MaxUrlLen)
  /\ NotRunning

CanonOnce ==
  /\ pc = "canon"
  /\ res' = << canon_url(arg) >>
  /\ pc' = "canon once"
  /\ UNCHANGED arg
  /\ Idle

CanonTwice ==
  /\ pc = "canon once"
  /\ res' = Append(res, canon_url(res[1]))
  /\ pc' = "canon twice"
  /\ UNCHANGED arg
  /\ Idle

UrlKeys == {"url", "profile_url"}

\* normalize_item of a record that holds arg under url or profile_url
NormalizeUrl ==
  /\ pc = "canon"
  /\ \E key \in UrlKeys : res' = << normalize_item((key :> Str(arg)) @@ EmptyItem, FileName(1)) >>
  /\ pc' = "normalized"
  /\ UNCHANGED arg
  /\ Idle

NextCanon == CanonOnce \/ CanonTwice \/ NormalizeUrl

SpecCanon == InitCanon /\ [][NextCanon]_vars

MaxFollowersLen == 4

FollowersAlphabet == {"1", "5", ".", "K", "-", " ", ","}

FollowersNumbers == {0 - 5, 0, 7, 1200}

FollowersInputs ==
  {None} \cup {Str(s) : s \in Lists(FollowersAlphabet, MaxFollowersLen)}
         \cup {Num(n) : n \in FollowersNumbers}

InitFollowers ==
  /\ pc = "followers"
  /\ arg \in FollowersInputs
  /\ NotRunning

ParseFollowers ==
  /\ pc = "followers"
  /\ res' = << followers_to_int(arg) >>
  /\ pc' = "parsed"
  /\ UNCHANGED arg
  /\ Idle

FollowersKeys == {"followers", "followers_count", "follower_count"}

\* normalize_item of a record that holds arg under one of the follower keys
NormalizeFollowers ==
  /\ pc = "followers"
  /\ \E key \in FollowersKeys : res' = << normalize_item((key :> arg) @@ EmptyItem, FileName(1)) >>
  /\ pc' = "normalized"
  /\ UNCHANGED arg
  /\ Idle

NextFollowers == ParseFollowers \/ NormalizeFollowers

SpecFollowers == InitFollowers /\ [][NextFollowers]_vars

\* values of the location-like fields
LocationValues ==
  {None, Str(<< >>), Str(<< " " >>), Str(<< " ", "N", "Y", "C", " " >>), Dict(<< Str(<< " ", "P", "a", "r", "i", "s" >>), Str(<< >>), Num(75) >>),
   Dict(<< Str(<< >>) >>), Dict(<< >>)}

\* the location-like fields the records of this specification vary
VariedKeys == << "location", "city", "geo" >>

LocationItems ==
  {("location" :> a) @@ ("city" :> b) @@ ("geo" :> c) @@ EmptyItem :
     a \in LocationValues, b \in LocationValues, c \in LocationValues}

InitLocation ==
  /\ pc = "location"
  /\ arg \in LocationItems
  /\ NotRunning

NormalizeLocation ==
  /\ pc = "location"
  /\ res' = << normalize_item(arg, FileName(1)) >>
  /\ pc' = "normalized"
  /\ UNCHANGED arg
  /\ Idle

GleanLocation ==
  /\ pc = "location"
  /\ res' = << glean_location(arg) >>
  /\ pc' = "gleaned"
  /\ UNCHANGED arg
  /\ Idle

NextLocation == NormalizeLocation \/ GleanLocation

SpecLocation == InitLocation /\ [][NextLocation]_vars

\* more records for the filter: Instagram profiles at and under a floor of
\* 5000, a profile URL that is a bare host
FilterPalette ==
  << ("url" :> Str(<< "h", "t", "t", "p", "s", ":", "/", "/", "i", "n", "s", "t", "a", "g", "r", "a", "m", ".", "c", "o", "m", "/", "p", "/" >>)) @@ ("followers" :> Str(<< "5", "k" >>)) @@ ("bio" :> Str(<< "T", "r", "a", "v", "e", "l", " ", "b", "l", "o", "g", "g", "e", "r" >>)) @@ EmptyItem,
     ("url" :> Str(<< "i", "n", "s", "t", "a", "g", "r", "a", "m", ".", "c", "o", "m", "/", "q" >>)) @@ ("followers" :> Num(4999)) @@ ("verified" :> Bool(TRUE)) @@ EmptyItem,
     ("url" :> Str(<< "h", "t", "t", "p", "s", ":", "/", "/", "i", "n", "s", "t", "a", "g", "r", "a", "m", ".", "c", "o", "m", "/" >>)) @@ EmptyItem >>

LeadsOf(palette) ==
  {normalize_item(palette[n], FileName(1)).lead :
     n \in {k \in 1..Len(palette) : ~normalize_item(palette[k], FileName(1)).raised}}

\* leads normalize_item produces
FilterLeads == LeadsOf(RawPalette) \cup LeadsOf(FilterPalette)

FilterConfigs ==
  [profiles_only : BOOLEAN,
   include_platforms : {<< >>, << Twitter >>, << Youtube, Instagram >>},
   min_followers : {<< >>, (Twitter :> 1500), (Twitter :> 1501), (Instagram :> 5000)},
   verified_only : BOOLEAN,
   keywords_any : {<< >>, << << "B", "O", "B" >> >>, << << "z", "z" >>, << "C", "a", "l", "l", " ", "9" >> >>}]

InitFilter ==
  /\ pc = "match"
  /\ arg \in FilterLeads
  /\ cfg \in FilterConfigs
  /\ mineFlag = FALSE
  /\ nFiles = 0
  /\ Fresh

Match ==
  /\ pc = "match"
  /\ res' = << matches_requirements(arg, cfg) >>
  /\ pc' = "matched"
  /\ UNCHANGED << arg, cfg, mineFlag, nFiles, fileIdx, leads, skipped, uniq, seen, filtered, jsonl >>

NextFilter == Match

SpecFilter == InitFilter /\ [][NextFilter]_vars

\* ------------------------------------------------------------------------
\* Properties
\* ------------------------------------------------------------------------

\* main() is past the deduplication loop
Deduplicated == pc \in {"filter", "export", "done", "crashed"}

Keyed(L) == L.canonical_url # << >> \/ L.handle # << >>

Unkeyed(L) == ~Keyed(L)

\* the identity key: which kind it is, the platform, and the URL or the
\* lower-cased handle
IdentityKey(L) ==
  IF L.canonical_url # << >> THEN << "url", L.social_media, L.canonical_url >>
  ELSE << "handle", L.social_media, Lower(L.handle) >>

SameKey(K, L) == Keyed(K) /\ Keyed(L) /\ IdentityKey(K) = IdentityKey(L)

RECURSIVE FirstOccurrences(_, _)
\* the keyed leads of ls from position i on that no earlier lead shares a key with
FirstOccurrences(ls, i) ==
  IF i > Len(ls) THEN << >>
  ELSE (IF Keyed(ls[i]) /\ \A j \in 1..(i - 1) : ~SameKey(ls[j], ls[i]) THEN << ls[i] >> ELSE << >>)
         \o FirstOccurrences(ls, i + 1)

RECURSIVE IsSubsequence(_, _)
\* u is l with some positions left out
IsSubsequence(u, l) ==
  IF Len(u) = 0 THEN TRUE
  ELSE IF Len(l) = 0 THEN FALSE
  ELSE IF u[1] = l[1] /\ IsSubsequence(Tail(u), Tail(l)) THEN TRUE
  ELSE IsSubsequence(u, Tail(l))

\* C1: after deduplication the keyed survivors are exactly the leads that no
\* earlier lead shares an identity key with (so a keyed lead is kept if and only
\* if it is the first of its key), the survivors keep the input's relative
\* order, and no two keyed survivors share a key.
C1_FirstOccurrenceKept ==
  Deduplicated =>
    /\ SelectSeq(uniq, Keyed) = FirstOccurrences(leads, 1)
    /\ IsSubsequence(uniq, leads)
    /\ \A i, j \in 1..Len(uniq) : i < j => ~SameKey(uniq[i], uniq[j])

\* a later lead that spells the key of an earlier one differently was dropped,
\* once for a URL key and once for a handle key
C1_Witness ==
  /\ pc = "filter"
  /\ Len(leads) = MaxLeads
  /\ \E i, j \in 1..Len(leads) :
       /\ i < j /\ SameKey(leads[i], leads[j]) /\ leads[i] # leads[j]
       /\ leads[j].canonical_url = << >>
       /\ leads[j].handle # leads[i].handle
  /\ Len(uniq) < Len(leads)

\* C2: a lead with an empty canonical_url and an empty handle is never dropped:
\* the unkeyed survivors are all the unkeyed leads, copies included.
C2_UnkeyedAlwaysKept ==
  Deduplicated => SelectSeq(uniq, Unkeyed) = SelectSeq(leads, Unkeyed)

\* two unkeyed leads equal in every field, source file included, both survive
C2_Witness ==
  /\ Deduplicated
  /\ \E i, j \in 1..Len(leads) : i < j /\ Unkeyed(leads[i]) /\ leads[i] = leads[j]
  /\ \E i, j \in 1..Len(uniq) : i < j /\ Unkeyed(uniq[i]) /\ uniq[i] = uniq[j]

\* the phone the mining pass leaves on a lead
PhoneAfterMining(L) ==
  IF ~mineFlag \/ L.phone # << >> THEN L.phone
  ELSE IF mine_phones_from_bio(L.bio) = << >> THEN << >>
  ELSE mine_phones_from_bio(L.bio)[1]

MiningFrame ==
  /\ Len(leads') = Len(leads)
  /\ \A n \in 1..Len(leads) :
       /\ leads'[n].phone = PhoneAfterMining(leads[n])
       /\ [leads'[n] EXCEPT !.phone = leads[n].phone] = leads[n]

\* C4: the mining pass keeps a non-empty phone, gives an empty one the first
\* mined match (or leaves it empty when the bio has none), changes no phone
\* when mining is disabled, and changes no other field and neither adds,
\* removes nor reorders leads.
C4_MiningOnlyFillsEmptyPhone == [][pc = "mine" => MiningFrame]_vars

\* mining ran over a lead whose phone was given and whose bio holds another
\* number, and over a lead whose phone it filled from the bio
C4_Witness ==
  /\ pc = "dedup"
  /\ mineFlag
  /\ \E n \in 1..Len(leads) :
       /\ leads[n].phone # << >>
       /\ mine_phones_from_bio(leads[n].bio) # << >>
       /\ leads[n].phone # mine_phones_from_bio(leads[n].bio)[1]
  /\ \E n \in 1..Len(leads) :
       /\ mine_phones_from_bio(leads[n].bio) # << >>
       /\ leads[n].phone = mine_phones_from_bio(leads[n].bio)[1]

\* C5: a file whose processing failed contributes no lead to the lead list.
C5_SkippedFileContributesNothing ==
  \A name \in skipped : \A n \in 1..Len(leads) : leads[n].source_file # name

\* C6: canon_url(canon_url(u)) = canon_url(u).
C6_CanonIdempotent == pc = "canon twice" => res[2] = res[1]

EndsWith(s, p) == Len(s) >= Len(p) /\ SubSeq(s, Len(s) - Len(p) + 1, Len(s)) = p

\* a canonical URL: https:// first, and a final "/" only when nothing but a
\* host comes before it (https://host/, or https:// with no host at all)
WellFormedUrl(c) ==
  \/ c = << >>
  \/ /\ StartsWith(c, Https)
     /\ EndsWith(c, Slash) =>
          FindIn(SubSeq(c, Len(Https) + 1, Len(c)), {"/"}) \in {0, Len(c) - Len(Https)}

C8_FollowersNonNegative ==
  /\ (pc = "parsed" /\ ~res[1].raised) => res[1].val >= 0
  /\ (pc = "normalized" /\ ~res[1].raised) => res[1].lead.followers_int >= 0

\* C9: followers_to_int never raises, so no follower value makes
\* normalize_item raise.
C9_FollowersNeverRaises == pc \in {"parsed", "normalized"} => ~res[1].raised

\* a location-like field is usable when it holds a non-blank string or a
\* nested object with a non-empty value
Usable(v) ==
  \/ v.t = "str" /\ Strip(v.v) # << >>
  \/ v.t = "dict" /\ \E n \in 1..Len(v.v) : Truthy(v.v[n])

Flattened(v) ==
  IF v.t = "str" THEN Strip(v.v)
  ELSE Join(AsSeq([n \in 1..Len(SelectSeq(v.v, Truthy)) |->
                     Strip(PyStr(SelectSeq(v.v, Truthy)[n]))]), CommaSpace)

\* the trimmed or flattened value of the first usable alias, else ""
ExpectedLocation(item) ==
  IF \A n \in 1..Len(LocationKeys) : ~Usable(item[LocationKeys[n]]) THEN << >>
  ELSE Flattened(item[LocationKeys[CHOOSE n \in 1..Len(LocationKeys) :
                        /\ Usable(item[LocationKeys[n]])
                        /\ \A k \in 1..(n - 1) : ~Usable(item[LocationKeys[k]])]])

\* C10: the location of a lead is one string: the first usable alias, trimmed
\* or flattened, also when the nested object is under "location" itself.
C10_LocationIsFlatString ==
  pc = "normalized" =>
    /\ ~res[1].raised
    /\ res[1].lead.location = Str(ExpectedLocation(arg))

\* what each criterion of the filter does with a lead
RejectsProfile(L, c) ==
  /\ c.profiles_only
  /\ L.handle = << >>
  /\ StripSet(urlparse(L.canonical_url).path, {"/"}) = << >>

RejectsPlatform(L, c) ==
  /\ c.include_platforms # << >>
  /\ \A n \in 1..Len(c.include_platforms) : c.include_platforms[n] # L.social_media

RejectsFollowers(L, c) ==
  L.followers_int <
    (IF L.social_media \in DOMAIN c.min_followers THEN c.min_followers[L.social_media] ELSE 0)

RejectsVerified(L, c) == c.verified_only /\ ~L.verified_bool

RejectsKeywords(L, c) ==
  /\ c.keywords_any # << >>
  /\ \A n \in 1..Len(c.keywords_any) :
         ~Contains(Lower(L.handle \o Space \o L.display_name \o Space \o L.bio),
                   Lower(c.keywords_any[n]))

NoCriterionRejects(L, c) ==
  ~(\/ RejectsProfile(L, c)
    \/ RejectsPlatform(L, c)
    \/ RejectsFollowers(L, c)
    \/ RejectsVerified(L, c)
    \/ RejectsKeywords(L, c))

\* the lead passes if and only if no criterion rejects it
C3_PassIffNoneRejects ==
  pc = "matched" => (~res[1].raised /\ (res[1].val <=> NoCriterionRejects(arg, cfg)))

\* with every criterion switched off or empty, every lead passes
C3_OffNeverRejects ==
  (/\ pc = "matched"
   /\ ~cfg.profiles_only
   /\ cfg.include_platforms = << >>
   /\ cfg.min_followers = << >>
   /\ ~cfg.verified_only
   /\ cfg.keywords_any = << >>) => res[1].val

\* C3: a lead passes if and only if none of the five criteria rejects it, and
\* a criterion that is switched off or empty never rejects.
C3_FilterCriteria == C3_PassIffNoneRejects /\ C3_OffNeverRejects

====
